---- MODULE Spec2Model ----
(***************************************************************************)
(* TgtgClient (src/tgtg/__init__.py): credential state, the token refresh  *)
(* flow, the polling login flow and the public operations gated by         *)
(* _login().  Time is in whole seconds.  Token, user id and e-mail values  *)
(* are non-empty strings or None, so Python truthiness coincides with      *)
(* "is not None" on them.                                                  *)
(***************************************************************************)
EXTENDS Integers, Sequences, FiniteSets, TLC

\* ---------------------------------------------------------------- constants
DEFAULT_ACCESS_TOKEN_LIFETIME == 14400
SecondsPerDay == 86400
PollRetries == 60
SleepSeconds == 10
HTTP_OK == 200
HTTP_ACCEPTED == 202

None == "None"
NoTime == -1
Missing == "<missing>"

\* ------------------------------------------------------------------- bounds
\* public operations started in one behaviour
MaxCalls == 2
\* steps of the clock between operations in one behaviour
MaxTicks == 1
\* polling login flows and signups started in one behaviour
MaxAuthFlows == 1

\* ------------------------------------------------------------------ domains
Threads == {"main", "second"}
MainThread == "main"
TickSteps ==
  {DEFAULT_ACCESS_TOKEN_LIFETIME, DEFAULT_ACCESS_TOKEN_LIFETIME + 1,
   SecondsPerDay, SecondsPerDay + DEFAULT_ACCESS_TOKEN_LIFETIME + 1}
\* constructor arguments (access_token, refresh_token, user_id,
\* last_time_token_refreshed) of the instances examined
Seeds ==
  { <<None, None, None, NoTime>>,
    <<"A0", "R0", "U0", 0>>,
    <<"A0", "R0", "U0", NoTime>>,
    <<"A0", None, "U0", NoTime>>,
    <<"A0", None, "U0", 0>>,
    <<"A0", "R0", None, 0>> }
Emails == {None, "mail"}
AccessTokenLifetimes == {DEFAULT_ACCESS_TOKEN_LIFETIME}
ErrorStatusCodes == {403}
ErrorContents == {"body1", "body2"}
ServerAccessTokens == {"A1"}
ServerRefreshTokens == {"R1"}
ServerUserIds == {"U1"}
LoginOps == {"_login", "get_items", "get_item", "set_favorite"}
DataOps == {"get_items", "get_item", "set_favorite"}

\* response.json(): the keys the client reads, each present or missing;
\* user_id stands for startup_data.user.user_id
NoBody ==
  [polling_id |-> Missing, access_token |-> Missing, refresh_token |-> Missing,
   user_id |-> Missing, items |-> Missing]
\* bodies of the refresh endpoint
RefreshBodies ==
  {[NoBody EXCEPT !.access_token = a, !.refresh_token = r] :
     a \in ServerAccessTokens \cup {Missing},
     r \in ServerRefreshTokens \cup {Missing}}
\* bodies of the poll and signup endpoints
AuthBodies ==
  {[NoBody EXCEPT !.access_token = a, !.refresh_token = r, !.user_id = u] :
     a \in ServerAccessTokens \cup {Missing},
     r \in ServerRefreshTokens \cup {Missing},
     u \in ServerUserIds \cup {Missing}}
\* bodies of the login endpoint
LoginBodies == {[NoBody EXCEPT !.polling_id = p] : p \in {"P1", Missing}}
\* bodies of the item endpoints; get_items reads the key "items"
DataBodies == {[NoBody EXCEPT !.items = i] : i \in {"I1", Missing}}

\* the requests.Response objects an endpoint may answer with: status_code,
\* content (the raw body) and json() (the keys read from a 200 body)
Responses(bodies) ==
  {[status |-> HTTP_OK, content |-> "json", json |-> b] : b \in bodies}
  \cup {[status |-> HTTP_ACCEPTED, content |-> "", json |-> NoBody]}
  \cup {[status |-> s, content |-> c, json |-> NoBody] :
          s \in ErrorStatusCodes, c \in ErrorContents}
NoResponse ==
  [endpoint |-> "none", status |-> 0, content |-> "", json |-> NoBody]
\* the response r as received in answer to the request of thread t
Received(req, r) ==
  [endpoint |-> req.endpoint, status |-> r.status, content |-> r.content,
   json |-> r.json]

VARIABLES
  access_token, refresh_token, user_id, last_time_token_refreshed,
  access_token_lifetime, email, store_function,
  now, stored,
  pc, op, retries, login_response, kwargs, response, request, result, count,
  before, started, ticks, auth_flows

creds == <<access_token, refresh_token, user_id, last_time_token_refreshed>>
config == <<access_token_lifetime, email, store_function>>
loc == <<retries, login_response>>
called == <<op, before>>
vars == <<access_token, refresh_token, user_id, last_time_token_refreshed,
          access_token_lifetime, email, store_function, now, stored,
          pc, op, retries, login_response, kwargs, response, request, result,
          count, before, started, ticks, auth_flows>>
budget == <<started, ticks, auth_flows>>

\* ------------------------------------------------------------------ helpers
\* Python truthiness of an optional string
Truthy(v) == v /= None

\* datetime.timedelta.seconds of a difference of `delta` whole seconds: the
\* seconds component of the normalised (days, seconds) pair, 0 <= seconds < 86400
TimedeltaSeconds(delta) == delta % SecondsPerDay

\* the authorization header of _headers: "Bearer <token>" or absent
_headers == IF Truthy(access_token) THEN access_token ELSE None

\* _already_logged reading refresh_token in place of user_id
AlreadyLogged_ByRefreshToken == Truthy(access_token) /\ Truthy(refresh_token)

_already_logged == Truthy(access_token) /\ Truthy(user_id)

\* the skip condition with the boundary excluded
TokenFreshStrict ==
  /\ last_time_token_refreshed /= NoTime
  /\ TimedeltaSeconds(now - last_time_token_refreshed) < access_token_lifetime

\* the skip condition of _refresh_token
TokenFresh ==
  /\ last_time_token_refreshed /= NoTime
  /\ TimedeltaSeconds(now - last_time_token_refreshed) <= access_token_lifetime

Snapshot ==
  [access_token |-> access_token, refresh_token |-> refresh_token,
   user_id |-> user_id, last_time_token_refreshed |-> last_time_token_refreshed]

\* the keyword arguments of a store_function call, none evaluated yet
NoKwargs ==
  [access_token |-> None, refresh_token |-> None, user_id |-> None,
   last_time_token_refreshed |-> NoTime]

NoCount == [refresh |-> 0, login |-> 0, poll |-> 0, accepted |-> 0, sleep |-> 0,
            data |-> 0, signup |-> 0, store |-> 0]
\* what a caller sees when it starts an operation
AtCall ==
  [access_token |-> access_token, refresh_token |-> refresh_token,
   user_id |-> user_id, last_time_token_refreshed |-> last_time_token_refreshed,
   access_token_lifetime |-> access_token_lifetime, now |-> now,
   stored |-> Len(stored)]
NoRequest == [endpoint |-> "none", authorization |-> None, refresh_token |-> None,
              user_id |-> None, email |-> None]
NoResult == [kind |-> "none", exc |-> "-", status |-> 0, content |-> "-"]
Returned == [kind |-> "return", exc |-> "-", status |-> 0, content |-> "-"]
Raised(e, s, c) == [kind |-> "raise", exc |-> e, status |-> s, content |-> c]

\* requests.post(...): the request that thread t sends now
Post(t, endpoint) ==
  request' = [request EXCEPT ![t] =
     [endpoint |-> endpoint, authorization |-> _headers,
      refresh_token |-> None,
      user_id |-> IF endpoint \in {"get_items", "get_item"} THEN user_id ELSE None,
      email |-> IF endpoint \in {"login", "poll"} THEN email ELSE None]]

Bump(t, field) == count' = [count EXCEPT ![t][field] = @ + 1]

\* the public operation of thread t ends with result r; its locals go out of
\* scope
Finish(t, r) ==
  /\ pc' = [pc EXCEPT ![t] = "idle"]
  /\ result' = [result EXCEPT ![t] = r]
  /\ retries' = [retries EXCEPT ![t] = 0]
  /\ login_response' = [login_response EXCEPT ![t] = NoBody]

\* an exception leaves the public operation
Raise(t, e, s, c) == Finish(t, Raised(e, s, c))

\* thread t receives the response r to its request
Receive(t, r) == response' = [response EXCEPT ![t] = Received(request[t], r)]

\* the operation goes on at position p
Goto(t, p) ==
  /\ pc' = [pc EXCEPT ![t] = p]
  /\ UNCHANGED result

\* self.store_function(...) when one is configured
Store ==
  stored' = IF store_function THEN Append(stored, Snapshot') ELSE stored



\* -------------------------------------------------------------------- Init
\* the state after __init__, lines 43-61
Init ==
  /\ \E seed \in Seeds :
       /\ access_token = seed[1]
       /\ refresh_token = seed[2]
       /\ user_id = seed[3]
       /\ last_time_token_refreshed = seed[4]
  /\ access_token_lifetime \in AccessTokenLifetimes
  /\ email \in Emails
  /\ store_function \in BOOLEAN
  /\ now = 0
  /\ stored = << >>
  /\ pc = [t \in Threads |-> "idle"]
  /\ op = [t \in Threads |-> "none"]
  /\ retries = [t \in Threads |-> 0]
  /\ login_response = [t \in Threads |-> NoBody]
  /\ kwargs = [t \in Threads |-> NoKwargs]
  /\ response = [t \in Threads |-> NoResponse]
  /\ request = [t \in Threads |-> NoRequest]
  /\ result = [t \in Threads |-> NoResult]
  /\ count = [t \in Threads |-> NoCount]
  /\ before = [t \in Threads |-> AtCall]
  /\ started = 0
  /\ ticks = 0
  /\ auth_flows = 0

\* ----------------------------------------------------------------- actions
\* the wall clock advances between operations (within an operation only
\* sleep(10) takes time); it never runs backwards
Tick(d) ==
  /\ \A t \in Threads : pc[t] = "idle"
  /\ ticks < MaxTicks
  /\ ticks' = ticks + 1
  /\ now' = now + d
  /\ UNCHANGED <<creds, config, stored, pc, called, kwargs, loc, response, request,
                 result, count, started, auth_flows>>

\* a caller invokes _login, get_items, get_item or set_favorite (lines 192,
\* 225, 239: each starts with self._login())
Call(t, o) ==
  /\ pc[t] = "idle"
  /\ started < MaxCalls
  /\ _already_logged \/ auth_flows < MaxAuthFlows
  /\ started' = started + 1
  /\ op' = [op EXCEPT ![t] = o]
  /\ pc' = [pc EXCEPT ![t] = "_login"]
  /\ result' = [result EXCEPT ![t] = NoResult]
  /\ count' = [count EXCEPT ![t] = NoCount]
  /\ before' = [before EXCEPT ![t] = AtCall]
  /\ request' = [request EXCEPT ![t] = NoRequest]
  /\ response' = [response EXCEPT ![t] = NoResponse]
  /\ UNCHANGED <<creds, config, now, stored, loc, kwargs, ticks, auth_flows>>

\* _login, lines 113-129: up to the login request
_login(t) ==
  /\ pc[t] = "_login"
  /\ IF _already_logged
       THEN /\ Goto(t, "_refresh_token")
            /\ UNCHANGED <<loc, request, count, auth_flows>>
       ELSE IF ~Truthy(access_token) /\ ~Truthy(email)
         THEN /\ Raise(t, "ValueError", 0, "You must fill email")
              /\ UNCHANGED <<request, count, auth_flows>>
         ELSE /\ Post(t, "login")
              /\ Bump(t, "login")
              /\ auth_flows' = auth_flows + 1
              /\ Goto(t, "login_sent")
              /\ UNCHANGED loc
  /\ UNCHANGED <<creds, config, now, stored, called, kwargs, response, started, ticks>>

\* _refresh_token, lines 82-87: the skip test
_refresh_token(t) ==
  /\ pc[t] = "_refresh_token"
  /\ IF TokenFresh
       THEN Goto(t, "logged")
       ELSE Goto(t, "line89")
  /\ UNCHANGED <<creds, config, now, stored, called, kwargs, loc, response, request,
                 count, budget>>

\* lines 89-91: the arguments of requests.post are evaluated in order;
\* headers=self._headers reads access_token
RefreshLine91(t) ==
  /\ pc[t] = "line89"
  /\ request' = [request EXCEPT ![t] =
                   [NoRequest EXCEPT !.authorization = _headers]]
  /\ Goto(t, "line92")
  /\ UNCHANGED <<creds, config, now, stored, called, kwargs, loc, response, count,
                 budget>>

\* lines 92-95: json={"refresh_token": self.refresh_token} reads
\* refresh_token, and the refresh request is sent
RefreshLine92(t) ==
  /\ pc[t] = "line92"
  /\ request' = [request EXCEPT ![t].endpoint = "refresh",
                                ![t].refresh_token = refresh_token]
  /\ Bump(t, "refresh")
  /\ Goto(t, "refresh_sent")
  /\ UNCHANGED <<creds, config, now, stored, called, kwargs, loc, response, budget>>

\* the refresh response handled without the else branch of lines 109-110: a
\* status other than 200 is ignored
RefreshResponse_NoRaise(t, r) ==
  /\ pc[t] = "refresh_sent"
  /\ Receive(t, r)
  /\ IF r.status = HTTP_OK
       THEN IF r.json.access_token = Missing
              THEN /\ Raise(t, "KeyError", 0, "access_token")
                   /\ UNCHANGED access_token
              ELSE /\ access_token' = r.json.access_token
                   /\ Goto(t, "line99")
                   /\ UNCHANGED loc
       ELSE /\ Goto(t, "logged")
            /\ UNCHANGED <<access_token, loc>>
  /\ UNCHANGED <<refresh_token, user_id, last_time_token_refreshed, config, now,
                 stored, called, kwargs, request, count, budget>>

\* lines 96-98 and 109-110: the refresh response arrives
RefreshResponse(t, r) ==
  /\ pc[t] = "refresh_sent"
  /\ Receive(t, r)
  /\ IF r.status = HTTP_OK
       THEN IF r.json.access_token = Missing
              THEN /\ Raise(t, "KeyError", 0, "access_token")
                   /\ UNCHANGED access_token
              ELSE /\ access_token' = r.json.access_token
                   /\ Goto(t, "line99")
                   /\ UNCHANGED loc
       ELSE /\ Raise(t, "TgtgAPIError", r.status, r.content)
            /\ UNCHANGED access_token
  /\ UNCHANGED <<refresh_token, user_id, last_time_token_refreshed, config, now,
                 stored, called, kwargs, request, count, budget>>

\* line 99 left out: the old refresh token is kept
RefreshLine99_KeepOld(t) ==
  /\ pc[t] = "line99"
  /\ IF response[t].json.refresh_token = Missing
       THEN /\ Raise(t, "KeyError", 0, "refresh_token")
       ELSE /\ Goto(t, "line100")
            /\ UNCHANGED loc
  /\ UNCHANGED <<creds, config, now, stored, called, kwargs, response, request, count,
                 budget>>

\* line 99
RefreshLine99(t) ==
  /\ pc[t] = "line99"
  /\ IF response[t].json.refresh_token = Missing
       THEN /\ Raise(t, "KeyError", 0, "refresh_token")
            /\ UNCHANGED refresh_token
       ELSE /\ refresh_token' = response[t].json.refresh_token
            /\ Goto(t, "line100")
            /\ UNCHANGED loc
  /\ UNCHANGED <<access_token, user_id, last_time_token_refreshed, config, now,
                 stored, called, kwargs, response, request, count, budget>>

\* line 100
RefreshLine100(t) ==
  /\ pc[t] = "line100"
  /\ last_time_token_refreshed' = now
  /\ Goto(t, "line102")
  /\ UNCHANGED <<access_token, refresh_token, user_id, config, now, stored,
                 called, kwargs, loc, response, request, count, budget>>

\* line 102: if self.store_function
RefreshLine102(t) ==
  /\ pc[t] = "line102"
  /\ IF store_function
       THEN Goto(t, "line104")
       ELSE Goto(t, "logged")
  /\ UNCHANGED <<creds, config, now, stored, called, kwargs, loc, response,
                 request, count, budget>>

\* line 104: the argument access_token=self.access_token is evaluated
RefreshLine104(t) ==
  /\ pc[t] = "line104"
  /\ kwargs' = [kwargs EXCEPT ![t].access_token = access_token]
  /\ Goto(t, "line105")
  /\ UNCHANGED <<creds, config, now, stored, called, loc, response, request,
                 count, budget>>

\* line 105: refresh_token=self.refresh_token
RefreshLine105(t) ==
  /\ pc[t] = "line105"
  /\ kwargs' = [kwargs EXCEPT ![t].refresh_token = refresh_token]
  /\ Goto(t, "line106")
  /\ UNCHANGED <<creds, config, now, stored, called, loc, response, request,
                 count, budget>>

\* line 106: user_id=self.user_id
RefreshLine106(t) ==
  /\ pc[t] = "line106"
  /\ kwargs' = [kwargs EXCEPT ![t].user_id = user_id]
  /\ Goto(t, "line107")
  /\ UNCHANGED <<creds, config, now, stored, called, loc, response, request,
                 count, budget>>

\* line 107: last_time_token_refreshed=self.last_time_token_refreshed
RefreshLine107(t) ==
  /\ pc[t] = "line107"
  /\ kwargs' = [kwargs EXCEPT ![t].last_time_token_refreshed =
                                  last_time_token_refreshed]
  /\ Goto(t, "line103")
  /\ UNCHANGED <<creds, config, now, stored, called, loc, response, request,
                 count, budget>>

\* lines 103 and 108: store_function runs with the arguments evaluated on
\* lines 104-107; _refresh_token and _login return
RefreshLine103(t) ==
  /\ pc[t] = "line103"
  /\ stored' = Append(stored, kwargs[t])
  /\ kwargs' = [kwargs EXCEPT ![t] = NoKwargs]
  /\ Bump(t, "store")
  /\ Goto(t, "logged")
  /\ UNCHANGED <<creds, config, now, called, loc, response, request, budget>>

\* lines 130-149: the login response arrives; on 200 the first poll is sent
LoginResponse(t, r) ==
  /\ pc[t] = "login_sent"
  /\ Receive(t, r)
  /\ IF r.status = HTTP_OK
       THEN IF r.json.polling_id = Missing
              THEN /\ Raise(t, "KeyError", 0, "polling_id")
                   /\ UNCHANGED <<request, count>>
              ELSE /\ login_response' = [login_response EXCEPT ![t] = r.json]
                   /\ retries' = [retries EXCEPT ![t] = PollRetries]
                   /\ Post(t, "poll")
                   /\ Bump(t, "poll")
                   /\ Goto(t, "poll_sent")
       ELSE /\ Raise(t, "TgtgLoginError", r.status, r.content)
            /\ UNCHANGED <<request, count>>
  /\ UNCHANGED <<creds, config, now, stored, called, kwargs, budget>>

\* a poll response handled with every status other than 200 treated as 202:
\* the loop sleeps and polls again after an error
PollResponse_RetryOnError(t, r) ==
  /\ pc[t] = "poll_sent"
  /\ Receive(t, r)
  /\ IF r.status = HTTP_OK
       THEN IF r.json.access_token = Missing
              THEN /\ Raise(t, "KeyError", 0, "access_token")
                   /\ UNCHANGED <<access_token, count>>
              ELSE /\ login_response' = [login_response EXCEPT ![t] = r.json]
                   /\ access_token' = r.json.access_token
                   /\ Goto(t, "line153")
                   /\ UNCHANGED <<retries, count>>
       ELSE /\ Bump(t, "accepted")
            /\ Goto(t, "line168")
            /\ UNCHANGED <<access_token, loc>>
  /\ UNCHANGED <<refresh_token, user_id, last_time_token_refreshed, config, now,
                 stored, called, kwargs, request, budget>>

\* lines 150-152, 166-167 and 170-171: a poll response arrives
PollResponse(t, r) ==
  /\ pc[t] = "poll_sent"
  /\ Receive(t, r)
  /\ IF r.status = HTTP_OK
       THEN IF r.json.access_token = Missing
              THEN /\ Raise(t, "KeyError", 0, "access_token")
                   /\ UNCHANGED <<access_token, count>>
              ELSE /\ login_response' = [login_response EXCEPT ![t] = r.json]
                   /\ access_token' = r.json.access_token
                   /\ Goto(t, "line153")
                   /\ UNCHANGED <<retries, count>>
       ELSE IF r.status = HTTP_ACCEPTED
         THEN /\ Bump(t, "accepted")
              /\ Goto(t, "line168")
              /\ UNCHANGED <<access_token, loc>>
         ELSE /\ Raise(t, "TgtgLoginError", r.status, r.content)
              /\ UNCHANGED <<access_token, count>>
  /\ UNCHANGED <<refresh_token, user_id, last_time_token_refreshed, config, now,
                 stored, called, kwargs, request, budget>>

\* the poll loop without its sleep(10)
Sleep_NoWait(t) ==
  /\ pc[t] = "line168"
  /\ retries' = [retries EXCEPT ![t] = @ - 1]
  /\ IF retries'[t] > 0
       THEN /\ Post(t, "poll")
            /\ count' = [count EXCEPT ![t].sleep = @ + 1, ![t].poll = @ + 1]
            /\ Goto(t, "poll_sent")
       ELSE /\ count' = [count EXCEPT ![t].sleep = @ + 1]
            /\ Goto(t, "logged")
            /\ UNCHANGED request
  /\ UNCHANGED <<creds, config, now, stored, called, kwargs, login_response, response,
                 budget>>

\* the poll loop with the test retries >= 0
Sleep_OneMore(t) ==
  /\ pc[t] = "line168"
  /\ now' = now + SleepSeconds
  /\ retries' = [retries EXCEPT ![t] = @ - 1]
  /\ IF retries'[t] >= 0
       THEN /\ Post(t, "poll")
            /\ count' = [count EXCEPT ![t].sleep = @ + 1, ![t].poll = @ + 1]
            /\ Goto(t, "poll_sent")
       ELSE /\ count' = [count EXCEPT ![t].sleep = @ + 1]
            /\ Goto(t, "logged")
            /\ UNCHANGED request
  /\ UNCHANGED <<creds, config, stored, called, kwargs, login_response, response,
                 budget>>

\* the poll loop without the retries -= 1 of line 169
Sleep_NoDecrement(t) ==
  /\ pc[t] = "line168"
  /\ now' = now + SleepSeconds
  /\ retries' = retries
  /\ IF retries'[t] > 0
       THEN /\ Post(t, "poll")
            /\ count' = [count EXCEPT ![t].sleep = @ + 1, ![t].poll = @ + 1]
            /\ Goto(t, "poll_sent")
       ELSE /\ count' = [count EXCEPT ![t].sleep = @ + 1]
            /\ Goto(t, "logged")
            /\ UNCHANGED request
  /\ UNCHANGED <<creds, config, stored, called, kwargs, login_response, response,
                 budget>>

\* lines 168-169 and the loop test of line 138: sleep, count the attempt, then
\* poll again or leave the loop and return from _login
Sleep(t) ==
  /\ pc[t] = "line168"
  /\ now' = now + SleepSeconds
  /\ retries' = [retries EXCEPT ![t] = @ - 1]
  /\ IF retries'[t] > 0
       THEN /\ Post(t, "poll")
            /\ count' = [count EXCEPT ![t].sleep = @ + 1, ![t].poll = @ + 1]
            /\ Goto(t, "poll_sent")
       ELSE /\ count' = [count EXCEPT ![t].sleep = @ + 1]
            /\ Goto(t, "logged")
            /\ UNCHANGED request
  /\ UNCHANGED <<creds, config, stored, called, kwargs, login_response, response,
                 budget>>

\* line 153
LoginLine153(t) ==
  /\ pc[t] = "line153"
  /\ IF login_response[t].refresh_token = Missing
       THEN /\ Raise(t, "KeyError", 0, "refresh_token")
            /\ UNCHANGED refresh_token
       ELSE /\ refresh_token' = login_response[t].refresh_token
            /\ Goto(t, "line154")
            /\ UNCHANGED loc
  /\ UNCHANGED <<access_token, user_id, last_time_token_refreshed, config, now,
                 stored, called, kwargs, response, request, count, budget>>

\* line 154
LoginLine154(t) ==
  /\ pc[t] = "line154"
  /\ last_time_token_refreshed' = now
  /\ Goto(t, "line155")
  /\ UNCHANGED <<access_token, refresh_token, user_id, config, now, stored,
                 called, kwargs, loc, response, request, count, budget>>

\* line 155 left out: the user id of the answer is not kept
LoginLine155_Skip(t) ==
  /\ pc[t] = "line155"
  /\ IF login_response[t].user_id = Missing
       THEN Raise(t, "KeyError", 0, "user_id")
       ELSE /\ Goto(t, "line157")
            /\ UNCHANGED loc
  /\ UNCHANGED <<creds, config, now, stored, called, kwargs, response, request, count,
                 budget>>

\* line 155
LoginLine155(t) ==
  /\ pc[t] = "line155"
  /\ IF login_response[t].user_id = Missing
       THEN /\ Raise(t, "KeyError", 0, "user_id")
            /\ UNCHANGED user_id
       ELSE /\ user_id' = login_response[t].user_id
            /\ Goto(t, "line157")
            /\ UNCHANGED loc
  /\ UNCHANGED <<access_token, refresh_token, last_time_token_refreshed, config,
                 now, stored, called, kwargs, response, request, count, budget>>

\* lines 157-165 without the call of the store function
LoginLine157_NoStore(t) ==
  /\ pc[t] = "line157"
  /\ Goto(t, "logged")
  /\ UNCHANGED <<creds, config, now, stored, called, kwargs, loc, response, request,
                 count, budget>>

\* lines 157-165: persist, break, return from _login
LoginLine157(t) ==
  /\ pc[t] = "line157"
  /\ UNCHANGED creds
  /\ Store
  /\ count' = [count EXCEPT ![t].store = @ + (IF store_function THEN 1 ELSE 0)]
  /\ Goto(t, "logged")
  /\ UNCHANGED <<config, now, called, kwargs, loc, response, request, budget>>

\* _login has returned: a direct call of _login ends, the data operations send
\* their request (lines 212, 226, 240)
LoginReturns(t) ==
  /\ pc[t] = "logged"
  /\ IF op[t] = "_login"
       THEN /\ Finish(t, Returned)
            /\ UNCHANGED <<request, count>>
       ELSE /\ Post(t, op[t])
            /\ Bump(t, "data")
            /\ Goto(t, "data_sent")
            /\ UNCHANGED loc
  /\ UNCHANGED <<creds, config, now, stored, called, kwargs, response, budget>>

\* the data response handled with the token dropped on an error status
DataResponse_DropToken(t, r) ==
  /\ pc[t] = "data_sent"
  /\ Receive(t, r)
  /\ Finish(t, IF r.status = HTTP_OK
                 THEN IF op[t] = "get_items" /\ r.json.items = Missing
                        THEN Raised("KeyError", 0, "items")
                        ELSE Returned
                 ELSE Raised("TgtgAPIError", r.status, r.content))
  /\ access_token' = IF r.status = HTTP_OK THEN access_token ELSE None
  /\ UNCHANGED <<refresh_token, user_id, last_time_token_refreshed, config, now,
                 stored, called, kwargs, request, count, budget>>

\* lines 219-222, 233-236, 247-248: the data response arrives; get_items
\* returns response.json()["items"], get_item the body, set_favorite nothing
DataResponse(t, r) ==
  /\ pc[t] = "data_sent"
  /\ Receive(t, r)
  /\ Finish(t, IF r.status = HTTP_OK
                 THEN IF op[t] = "get_items" /\ r.json.items = Missing
                        THEN Raised("KeyError", 0, "items")
                        ELSE Returned
                 ELSE Raised("TgtgAPIError", r.status, r.content))
  /\ UNCHANGED <<creds, config, now, stored, called, kwargs, request, count, budget>>

\* signup_by_email, lines 261-275: the signup request is sent without _login
signup_by_email(t) ==
  /\ pc[t] = "idle"
  /\ started < MaxCalls
  /\ auth_flows < MaxAuthFlows
  /\ started' = started + 1
  /\ auth_flows' = auth_flows + 1
  /\ op' = [op EXCEPT ![t] = "signup_by_email"]
  /\ pc' = [pc EXCEPT ![t] = "signup_sent"]
  /\ result' = [result EXCEPT ![t] = NoResult]
  /\ count' = [count EXCEPT ![t] = [NoCount EXCEPT !.signup = 1]]
  /\ before' = [before EXCEPT ![t] = AtCall]
  /\ response' = [response EXCEPT ![t] = NoResponse]
  /\ Post(t, "signup")
  /\ UNCHANGED <<creds, config, now, stored, loc, kwargs, ticks>>

\* lines 276-277 and 282-283: the signup response arrives
SignupResponse(t, r) ==
  /\ pc[t] = "signup_sent"
  /\ Receive(t, r)
  /\ IF r.status = HTTP_OK
       THEN IF r.json.access_token = Missing
              THEN /\ Raise(t, "KeyError", 0, "access_token")
                   /\ UNCHANGED access_token
              ELSE /\ access_token' = r.json.access_token
                   /\ Goto(t, "line278")
                   /\ UNCHANGED loc
       ELSE /\ Raise(t, "TgtgAPIError", r.status, r.content)
            /\ UNCHANGED access_token
  /\ UNCHANGED <<refresh_token, user_id, last_time_token_refreshed, config, now,
                 stored, called, kwargs, request, count, budget>>

\* line 278
SignupLine278(t) ==
  /\ pc[t] = "line278"
  /\ IF response[t].json.refresh_token = Missing
       THEN /\ Raise(t, "KeyError", 0, "refresh_token")
            /\ UNCHANGED refresh_token
       ELSE /\ refresh_token' = response[t].json.refresh_token
            /\ Goto(t, "line279")
            /\ UNCHANGED loc
  /\ UNCHANGED <<access_token, user_id, last_time_token_refreshed, config, now,
                 stored, called, kwargs, response, request, count, budget>>

\* line 279
SignupLine279(t) ==
  /\ pc[t] = "line279"
  /\ last_time_token_refreshed' = now
  /\ Goto(t, "line280")
  /\ UNCHANGED <<access_token, refresh_token, user_id, config, now, stored,
                 called, kwargs, loc, response, request, count, budget>>

\* lines 280-281: the user id, then return self
SignupLine280(t) ==
  /\ pc[t] = "line280"
  /\ IF response[t].json.user_id = Missing
       THEN /\ Raise(t, "KeyError", 0, "user_id")
            /\ UNCHANGED user_id
       ELSE /\ user_id' = response[t].json.user_id
            /\ Finish(t, Returned)
  /\ UNCHANGED <<access_token, refresh_token, last_time_token_refreshed, config,
                 now, stored, called, kwargs, response, request, count, budget>>

Step(t) ==
  \/ \E o \in LoginOps : Call(t, o)
  \/ _login(t)
  \/ _refresh_token(t)
  \/ RefreshLine91(t)
  \/ RefreshLine92(t)
  \/ \E r \in Responses(RefreshBodies) : RefreshResponse(t, r)
  \/ RefreshLine99(t)
  \/ RefreshLine100(t)
  \/ RefreshLine102(t)
  \/ RefreshLine104(t)
  \/ RefreshLine105(t)
  \/ RefreshLine106(t)
  \/ RefreshLine107(t)
  \/ RefreshLine103(t)
  \/ \E r \in Responses(LoginBodies) : LoginResponse(t, r)
  \/ \E r \in Responses(AuthBodies) : PollResponse(t, r)
  \/ Sleep(t)
  \/ LoginLine153(t)
  \/ LoginLine154(t)
  \/ LoginLine155(t)
  \/ LoginLine157(t)
  \/ LoginReturns(t)
  \/ \E r \in Responses(DataBodies) : DataResponse(t, r)
  \/ signup_by_email(t)
  \/ \E r \in Responses(AuthBodies) : SignupResponse(t, r)
  \/ SignupLine278(t)
  \/ SignupLine279(t)
  \/ SignupLine280(t)

Next ==
  \/ \E d \in TickSteps : Tick(d)
  \/ Step(MainThread)

Spec == Init /\ [][Next]_vars

\* ------------------------------------------------------------------ claims
Present(v) == v /= None

\* the credentials are those the caller saw when the operation started
CredsAsBefore(t) ==
  /\ access_token = before[t].access_token
  /\ refresh_token = before[t].refresh_token
  /\ user_id = before[t].user_id
  /\ last_time_token_refreshed = before[t].last_time_token_refreshed

\* the operation of thread t started authenticated
LoggedAtCall(t) ==
  Present(before[t].access_token) /\ Present(before[t].user_id)

\* the operation of thread t started with a token within its lifetime, by
\* the elapsed time in total seconds
FreshAtCall(t) ==
  /\ before[t].last_time_token_refreshed /= NoTime
  /\ before[t].now - before[t].last_time_token_refreshed
       <= before[t].access_token_lifetime

\* C1: whenever get_items, get_item or set_favorite has its data request in
\* flight, the request carries the bearer token and the token is within its
\* lifetime by the client clock.
C1_DataRequestCarriesFreshToken ==
  \A t \in Threads :
    pc[t] = "data_sent" =>
      /\ Present(access_token)
      /\ request[t].authorization = access_token
      /\ last_time_token_refreshed /= NoTime
      /\ now - last_time_token_refreshed <= access_token_lifetime

\* C2: whenever _login has returned without raising, access_token,
\* refresh_token, user_id and last_time_token_refreshed are all present.
C2_LoginReturnPopulatesAll ==
  \A t \in Threads :
    pc[t] = "logged" =>
      /\ Present(access_token)
      /\ Present(refresh_token)
      /\ Present(user_id)
      /\ last_time_token_refreshed /= NoTime

\* C3: an operation that starts authenticated with a token whose age is at
\* most the lifetime (equality included) sends no refresh, login or poll
\* request, does not raise in _login and leaves the credentials as they were.
C3_FreshTokenSkipsNetwork ==
  \A t \in Threads :
    (op[t] \in LoginOps /\ LoggedAtCall(t) /\ FreshAtCall(t)) =>
      /\ count[t].refresh = 0
      /\ count[t].login = 0
      /\ count[t].poll = 0
      /\ count[t].store = 0
      /\ CredsAsBefore(t)
      /\ pc[t] \in {"_login", "_refresh_token", "logged", "data_sent", "idle"}
      /\ (op[t] = "_login" /\ pc[t] = "idle" => result[t] = Returned)

\* C3 witness: _login has returned for a token aged exactly its lifetime.
C3_Witness ==
  /\ op[MainThread] = "_login"
  /\ pc[MainThread] = "idle"
  /\ result[MainThread] = Returned
  /\ LoggedAtCall(MainThread)
  /\ before[MainThread].last_time_token_refreshed /= NoTime
  /\ before[MainThread].now - before[MainThread].last_time_token_refreshed
       = before[MainThread].access_token_lifetime
  /\ count[MainThread].refresh = 0

\* C4: an operation that starts authenticated with no refresh time, or with a
\* token older (in total seconds) than the lifetime, sends exactly one refresh
\* request once _login has passed its checks.
C4_StaleTokenRefreshesOnce ==
  \A t \in Threads :
    (/\ op[t] \in LoginOps
     /\ LoggedAtCall(t)
     /\ ~FreshAtCall(t)
     /\ pc[t] \notin {"_login", "_refresh_token", "line89", "line92"}) =>
      count[t].refresh = 1

\* thread t holds the 200 answer of `endpoint` with every key in `keys`
Answered200(t, endpoint, keys) ==
  /\ response[t].endpoint = endpoint
  /\ response[t].status = HTTP_OK
  /\ \A k \in keys : response[t].json[k] /= Missing

\* C5: after a refresh answered 200 with an access and a refresh token, the
\* credentials hold exactly these two tokens, the refresh time is the current
\* time, and user_id and access_token_lifetime are as before the call.
C5_RefreshOkUpdatesExactly ==
  \A t \in Threads :
    (/\ pc[t] \in {"logged", "data_sent"}
     /\ response[t].endpoint = "refresh"
     /\ response[t].status = HTTP_OK) =>
      /\ response[t].json.access_token /= Missing
      /\ response[t].json.refresh_token /= Missing
      /\ access_token = response[t].json.access_token
      /\ refresh_token = response[t].json.refresh_token
      /\ last_time_token_refreshed = now
      /\ user_id = before[t].user_id
      /\ access_token_lifetime = before[t].access_token_lifetime

\* C5 witness: a stale seeded session has been refreshed.
C5_Witness ==
  /\ pc[MainThread] = "logged"
  /\ Answered200(MainThread, "refresh", {"access_token", "refresh_token"})
  /\ before[MainThread].access_token = "A0"
  /\ before[MainThread].refresh_token = "R0"
  /\ access_token = "A1"
  /\ refresh_token = "R1"
  /\ now > before[MainThread].last_time_token_refreshed
  /\ before[MainThread].last_time_token_refreshed /= NoTime

\* C6: a refresh answered with a status other than 200 ends the operation
\* with TgtgAPIError(status, raw body), every credential field as before the
\* call and no invocation of the store function.
C6_RefreshErrorRaisesAndKeeps ==
  \A t \in Threads :
    (response[t].endpoint = "refresh" /\ response[t].status /= HTTP_OK) =>
      /\ pc[t] = "idle"
      /\ result[t] = Raised("TgtgAPIError", response[t].status, response[t].content)
      /\ CredsAsBefore(t)
      /\ count[t].store = 0
      /\ Len(stored) = before[t].stored

\* C6 witness: a refresh was answered 403 on an instance with a store function.
C6_Witness ==
  /\ response[MainThread].endpoint = "refresh"
  /\ response[MainThread].status = 403
  /\ response[MainThread].content = "body2"
  /\ store_function
  /\ pc[MainThread] = "idle"
  /\ result[MainThread].exc = "TgtgAPIError"

\* C7: an operation that failed inside the refresh flow or the polling login
\* flow leaves access_token, refresh_token, user_id and
\* last_time_token_refreshed as they were before the call.
C7_FailedFlowKeepsCredentials ==
  \A t \in Threads :
    (/\ op[t] \in LoginOps
     /\ pc[t] = "idle"
     /\ result[t].kind = "raise"
     /\ count[t].data = 0) =>
      CredsAsBefore(t)

\* C8: _login called without access_token or without user_id, and without an
\* email, raises ValueError and sends no request.
C8_NoEmailRaisesWithoutNetwork ==
  \A t \in Threads :
    (/\ op[t] \in LoginOps
     /\ ~LoggedAtCall(t)
     /\ ~Present(email)
     /\ pc[t] /= "_login") =>
      /\ pc[t] = "idle"
      /\ result[t].kind = "raise"
      /\ result[t].exc = "ValueError"
      /\ count[t] = NoCount

\* C9: when the poll endpoint answers 202 k times (k < 60) and then 200 with
\* access_token, refresh_token and user_id, the flow has made k+1 poll calls
\* and k sleeps of 10 seconds, and the credentials are those of the answer with
\* the refresh time the current time; the poll count stays k+1 to the end of
\* the operation.
C9_PollConfirmed ==
  \A t \in Threads :
    /\ (/\ pc[t] \in {"logged", "data_sent"}
        /\ response[t].endpoint = "poll"
        /\ response[t].status = HTTP_OK) =>
          /\ Answered200(t, "poll", {"access_token", "refresh_token", "user_id"})
          /\ count[t].login = 1
          /\ count[t].accepted < PollRetries
          /\ count[t].poll = count[t].accepted + 1
          /\ count[t].sleep = count[t].accepted
          /\ now = before[t].now + SleepSeconds * count[t].accepted
          /\ access_token = response[t].json.access_token
          /\ refresh_token = response[t].json.refresh_token
          /\ user_id = response[t].json.user_id
          /\ last_time_token_refreshed = now
    /\ (/\ pc[t] = "idle"
        /\ op[t] \in LoginOps
        /\ result[t] = Returned
        /\ count[t].login = 1
        /\ count[t].accepted < PollRetries) =>
          /\ count[t].poll = count[t].accepted + 1
          /\ count[t].sleep = count[t].accepted
          /\ Present(access_token) /\ Present(refresh_token) /\ Present(user_id)
          /\ last_time_token_refreshed
               = before[t].now + SleepSeconds * count[t].accepted

\* C9 witness: the 60th poll is answered 200 after 59 answers of 202, on an
\* instance that started without credentials.
C9_Witness ==
  /\ pc[MainThread] = "logged"
  /\ Answered200(MainThread, "poll", {"access_token", "refresh_token", "user_id"})
  /\ count[MainThread].accepted = PollRetries - 1
  /\ ~Present(before[MainThread].access_token)
  /\ access_token = "A1"
  /\ user_id = "U1"

\* C10: when the poll endpoint answers 202 on 60 consecutive attempts, the
\* flow ends after exactly 60 poll calls: _login returns without an error and
\* every credential field is as before the call.
C10_PollExhausted ==
  \A t \in Threads :
    /\ count[t].accepted <= PollRetries
    /\ (count[t].accepted = PollRetries /\ pc[t] /= "line168") =>
          /\ count[t].poll = PollRetries
          /\ count[t].sleep = PollRetries
          /\ CredsAsBefore(t)
          /\ pc[t] \in {"logged", "data_sent", "idle"}
          /\ (pc[t] = "idle" /\ count[t].data = 0 => result[t] = Returned)

\* C10 witness: _login has returned after 60 answers of 202 on an instance
\* that started without credentials and still has none.
C10_Witness ==
  /\ pc[MainThread] = "idle"
  /\ op[MainThread] = "_login"
  /\ result[MainThread] = Returned
  /\ count[MainThread].accepted = PollRetries
  /\ ~Present(access_token)
  /\ ~Present(refresh_token)
  /\ ~Present(user_id)
  /\ last_time_token_refreshed = NoTime

\* thread t has acquired tokens in its operation: it holds the 200 answer of
\* the refresh or the poll endpoint with every key the flow reads
Acquired(t) ==
  \/ Answered200(t, "refresh", {"access_token", "refresh_token"})
  \/ Answered200(t, "poll", {"access_token", "refresh_token", "user_id"})

\* C11: with a store function, every operation invokes it once when its
\* refresh or poll was answered 200 (after all fields are assigned, with the
\* current snapshot) and never otherwise, so the invocations over a sequence of
\* calls are as many as the acquisitions; without a store function nothing is
\* stored.
C11_StoreOncePerAcquisition ==
  LET t == MainThread IN
    /\ Len(stored) = before[t].stored + count[t].store
    /\ count[t].store <= 1
    /\ ~store_function => Len(stored) = 0
    /\ (store_function /\ op[t] \in LoginOps) =>
         /\ pc[t] \in {"logged", "data_sent"} =>
              /\ count[t].store = (IF Acquired(t) THEN 1 ELSE 0)
              /\ Acquired(t) => stored[Len(stored)] = Snapshot
         /\ (pc[t] = "idle" /\ count[t].data = 0) =>
              count[t].store = (IF Acquired(t) THEN 1 ELSE 0)
         /\ pc[t] \notin {"logged", "data_sent", "idle"} => count[t].store = 0
    /\ op[t] = "signup_by_email" => count[t].store = 0

\* C11 witness: a login and, later, a refresh have each been stored.
C11_Witness ==
  /\ store_function
  /\ pc[MainThread] = "idle"
  /\ Len(stored) = 2
  /\ stored[1].user_id = "U1"
  /\ stored[2] = Snapshot
  /\ stored[2].last_time_token_refreshed > stored[1].last_time_token_refreshed
  /\ Answered200(MainThread, "refresh", {"access_token", "refresh_token"})

\* C12: with a store function, after every completed operation that changed a
\* credential field the last snapshot passed to the store function is the
\* current credentials.
C12_EveryChangePersisted ==
  \A t \in Threads :
    (/\ store_function
     /\ pc[t] = "idle"
     /\ result[t] = Returned
     /\ ~CredsAsBefore(t)) =>
      /\ Len(stored) > 0
      /\ stored[Len(stored)] = Snapshot

\* ------------------------------------------------- concurrent callers
\* Two callers of _login share one authenticated instance; the class holds no
\* lock, so their steps interleave between any two statements.  The refresh endpoint
\* answers every request with a token pair of its own.
ConcRefreshBodies(t) ==
  {[NoBody EXCEPT !.access_token = IF t = MainThread THEN "A1" ELSE "A2",
                  !.refresh_token = IF t = MainThread THEN "R1" ELSE "R2"]}

ConcInit == Init /\ _already_logged

ConcStep(t) ==
  \/ Call(t, "_login")
  \/ _login(t)
  \/ _refresh_token(t)
  \/ RefreshLine91(t)
  \/ RefreshLine92(t)
  \/ \E r \in Responses(ConcRefreshBodies(t)) : RefreshResponse(t, r)
  \/ RefreshLine99(t)
  \/ RefreshLine100(t)
  \/ RefreshLine102(t)
  \/ RefreshLine104(t)
  \/ RefreshLine105(t)
  \/ RefreshLine106(t)
  \/ RefreshLine107(t)
  \/ RefreshLine103(t)
  \/ LoginReturns(t)

ConcNext ==
  \/ \E d \in TickSteps : Tick(d)
  \/ \E t \in Threads : ConcStep(t)

SpecConc == ConcInit /\ [][ConcNext]_vars

\* thread t is inside _login: between its first check and its return
InLogin(t) ==
  pc[t] \in {"_login", "_refresh_token", "line89", "line92", "refresh_sent",
             "line99", "line100", "line102", "line104", "line105", "line106",
             "line107", "line103", "login_sent", "poll_sent",
             "line168", "line153", "line154", "line155", "line157"}

\* C13: at most one caller is inside _login at any moment, so at most one
\* refresh request or login/poll exchange of the instance is in flight.
C13_LoginSerialized ==
  /\ Cardinality({t \in Threads : InLogin(t)}) <= 1
  /\ Cardinality({t \in Threads :
                    pc[t] \in {"refresh_sent", "login_sent", "poll_sent"}}) <= 1

\* C20: once two concurrent callers of _login have both had their refresh
\* answered 200, with different token pairs, and have returned, the stored
\* access and refresh token come from one and the same answer and the last
\* snapshot passed to the store function is the current credentials.
C20_ConcurrentRefreshConsistent ==
  (/\ \A t \in Threads :
        /\ pc[t] = "idle"
        /\ op[t] = "_login"
        /\ result[t] = Returned
        /\ Answered200(t, "refresh", {"access_token", "refresh_token"})
   /\ \A t, u \in Threads : t /= u => response[t].json /= response[u].json) =>
    /\ \E t \in Threads :
         /\ access_token = response[t].json.access_token
         /\ refresh_token = response[t].json.refresh_token
    /\ store_function => (Len(stored) > 0 /\ stored[Len(stored)] = Snapshot)

\* thread t holds a non-200 answer to the data request of its operation
DataFailed(t) ==
  /\ op[t] \in DataOps
  /\ response[t].endpoint = op[t]
  /\ response[t].status /= HTTP_OK

\* C14 as stated: a get_items call whose item request is answered with a
\* status other than 200 raises TgtgAPIError(status, body) and leaves the
\* credentials as they were before the call, whatever the starting state.
C14_FailedItemsKeepsCredentials ==
  \A t \in Threads :
    (op[t] = "get_items" /\ DataFailed(t)) =>
      /\ result[t] = Raised("TgtgAPIError", response[t].status, response[t].content)
      /\ CredsAsBefore(t)

\* C14 amended: a data operation whose request is answered with a status other
\* than 200 raises TgtgAPIError(status, body); no credential field changes
\* while the data request is in flight or when its answer is handled, so the
\* credentials are those _login left, and they are those from before the call
\* whenever _login sent no refresh and no login request.
C14_FailedDataKeepsLoginCredentials ==
  /\ [](\A t \in Threads :
          DataFailed(t) =>
            /\ pc[t] = "idle"
            /\ result[t] =
                 Raised("TgtgAPIError", response[t].status, response[t].content)
            /\ count[t].data = 1
            /\ request[t].authorization = _headers
            /\ (count[t].refresh = 0 /\ count[t].login = 0) => CredsAsBefore(t))
  /\ [][\A t \in Threads :
          pc[t] = "data_sent" =>
            /\ access_token' = access_token
            /\ refresh_token' = refresh_token
            /\ user_id' = user_id
            /\ last_time_token_refreshed' = last_time_token_refreshed
            /\ stored' = stored]_vars

\* C14 witness: get_items started with a stale token, refreshed it and then
\* had its item request answered 403.
C14_Witness ==
  /\ op[MainThread] = "get_items"
  /\ DataFailed(MainThread)
  /\ response[MainThread].status = 403
  /\ count[MainThread].refresh = 1
  /\ ~CredsAsBefore(MainThread)
  /\ access_token = "A1"
  /\ result[MainThread].exc = "TgtgAPIError"

\* ------------------------------- unseeded instance, well-formed answers
\* 200 bodies that hold every key the client reads
FullRefreshBodies ==
  {b \in RefreshBodies : b.access_token /= Missing /\ b.refresh_token /= Missing}
FullAuthBodies ==
  {b \in AuthBodies : /\ b.access_token /= Missing
                      /\ b.refresh_token /= Missing
                      /\ b.user_id /= Missing}
FullLoginBodies == {b \in LoginBodies : b.polling_id /= Missing}
FullDataBodies == {b \in DataBodies : b.items /= Missing}

\* TgtgClient(email=..., store_function=...) without credentials
UnseededInit ==
  /\ Init
  /\ access_token = None
  /\ refresh_token = None
  /\ user_id = None
  /\ last_time_token_refreshed = NoTime

WellFormedStep(t) ==
  \/ \E o \in LoginOps : Call(t, o)
  \/ _login(t)
  \/ _refresh_token(t)
  \/ RefreshLine91(t)
  \/ RefreshLine92(t)
  \/ \E r \in Responses(FullRefreshBodies) : RefreshResponse(t, r)
  \/ RefreshLine99(t)
  \/ RefreshLine100(t)
  \/ RefreshLine102(t)
  \/ RefreshLine104(t)
  \/ RefreshLine105(t)
  \/ RefreshLine106(t)
  \/ RefreshLine107(t)
  \/ RefreshLine103(t)
  \/ \E r \in Responses(FullLoginBodies) : LoginResponse(t, r)
  \/ \E r \in Responses(FullAuthBodies) : PollResponse(t, r)
  \/ Sleep(t)
  \/ LoginLine153(t)
  \/ LoginLine154(t)
  \/ LoginLine155(t)
  \/ LoginLine157(t)
  \/ LoginReturns(t)
  \/ \E r \in Responses(FullDataBodies) : DataResponse(t, r)
  \/ signup_by_email(t)
  \/ \E r \in Responses(FullAuthBodies) : SignupResponse(t, r)
  \/ SignupLine278(t)
  \/ SignupLine279(t)
  \/ SignupLine280(t)

WellFormedNext ==
  \/ \E d \in TickSteps : Tick(d)
  \/ WellFormedStep(MainThread)

SpecWellFormed == UnseededInit /\ [][WellFormedNext]_vars

\* C15: on an instance built without credentials, with well-formed 200
\* answers, between operations access_token is present exactly when user_id
\* is, and last_time_token_refreshed is present exactly when access_token and
\* refresh_token both are.
C15_CredentialsPairedBetweenOperations ==
  (\A t \in Threads : pc[t] = "idle") =>
    /\ Present(access_token) <=> Present(user_id)
    /\ (last_time_token_refreshed /= NoTime)
         <=> (Present(access_token) /\ Present(refresh_token))

\* C15 witness: a polling login has populated the credentials of an unseeded
\* instance and a later operation has finished.
C15_Witness ==
  /\ \A t \in Threads : pc[t] = "idle"
  /\ started = 2
  /\ op[MainThread] \in DataOps
  /\ response[MainThread].status \in ErrorStatusCodes
  /\ Present(access_token)
  /\ Present(user_id)
  /\ Present(refresh_token)
  /\ last_time_token_refreshed /= NoTime
  /\ Len(stored) = 1

\* C16: the polling login runs login request, then polls, then a terminal
\* state. A poll request is in flight only after the login request was answered
\* 200 (first poll) or the previous poll was answered 202 (later polls); a
\* login answer other than 200 ends the operation with
\* TgtgLoginError(status, content) and no poll; a poll answer other than 200 or
\* 202 ends the operation at once with TgtgLoginError(status, content), with one
\* sleep per earlier 202 and no poll after it.
C16_PollingFlowOrderedFailuresTerminal ==
  \A t \in Threads :
    /\ pc[t] = "poll_sent" =>
         /\ count[t].login = 1
         /\ request[t].endpoint = "poll"
         /\ \/ /\ count[t].poll = 1
               /\ response[t].endpoint = "login"
               /\ response[t].status = HTTP_OK
            \/ /\ count[t].poll > 1
               /\ response[t].endpoint = "poll"
               /\ response[t].status = HTTP_ACCEPTED
    /\ count[t].poll > 0 => count[t].login = 1
    /\ (response[t].endpoint = "login" /\ response[t].status /= HTTP_OK) =>
         /\ pc[t] = "idle"
         /\ result[t] = Raised("TgtgLoginError", response[t].status,
                               response[t].content)
         /\ count[t].poll = 0
         /\ count[t].sleep = 0
    /\ (response[t].endpoint = "poll"
          /\ response[t].status \notin {HTTP_OK, HTTP_ACCEPTED}) =>
         /\ pc[t] = "idle"
         /\ result[t] = Raised("TgtgLoginError", response[t].status,
                               response[t].content)
         /\ count[t].poll = count[t].accepted + 1
         /\ count[t].sleep = count[t].accepted

\* C16 witness: after two 202 answers the third poll was answered with an
\* error and the operation has raised.
C16_Witness ==
  /\ pc[MainThread] = "idle"
  /\ response[MainThread].endpoint = "poll"
  /\ response[MainThread].status \in ErrorStatusCodes
  /\ count[MainThread].accepted = 2
  /\ count[MainThread].poll = 3
  /\ result[MainThread].exc = "TgtgLoginError"

\* C17: an operation that starts with access_token and user_id present sends
\* no login and no poll request, at most one refresh request, and a refresh
\* answered with an error ends the operation with that single request.
C17_LoggedOnlyRefreshes ==
  \A t \in Threads :
    LoggedAtCall(t) =>
      /\ count[t].login = 0
      /\ count[t].poll = 0
      /\ count[t].refresh <= 1
      /\ request[t].endpoint \notin {"login", "poll"}
      /\ (response[t].endpoint = "refresh" /\ response[t].status /= HTTP_OK) =>
           /\ pc[t] = "idle"
           /\ count[t].refresh = 1
           /\ request[t].endpoint = "refresh"

\* C17 witness: an operation that started with access_token and user_id but no
\* refresh_token had its refresh answered with an error and ended there.
C17_Witness ==
  /\ pc[MainThread] = "idle"
  /\ LoggedAtCall(MainThread)
  /\ before[MainThread].refresh_token = None
  /\ response[MainThread].endpoint = "refresh"
  /\ response[MainThread].status \in ErrorStatusCodes
  /\ count[MainThread].refresh = 1
  /\ count[MainThread].login = 0

\* C18: every request sent to the refresh endpoint carries a refresh_token
\* that is present.
C18_RefreshOnlyWithRefreshToken ==
  \A t \in Threads :
    request[t].endpoint = "refresh" => Present(request[t].refresh_token)

\* ------------------------------------------------------------- progress
\* the steps of an operation in progress: every step of thread t except the
\* caller's decision to start an operation
Run(t) ==
  \/ _login(t)
  \/ _refresh_token(t)
  \/ RefreshLine91(t)
  \/ RefreshLine92(t)
  \/ \E r \in Responses(RefreshBodies) : RefreshResponse(t, r)
  \/ RefreshLine99(t)
  \/ RefreshLine100(t)
  \/ RefreshLine102(t)
  \/ RefreshLine104(t)
  \/ RefreshLine105(t)
  \/ RefreshLine106(t)
  \/ RefreshLine107(t)
  \/ RefreshLine103(t)
  \/ \E r \in Responses(LoginBodies) : LoginResponse(t, r)
  \/ \E r \in Responses(AuthBodies) : PollResponse(t, r)
  \/ Sleep(t)
  \/ LoginLine153(t)
  \/ LoginLine154(t)
  \/ LoginLine155(t)
  \/ LoginLine157(t)
  \/ LoginReturns(t)
  \/ \E r \in Responses(DataBodies) : DataResponse(t, r)
  \/ \E r \in Responses(AuthBodies) : SignupResponse(t, r)
  \/ SignupLine278(t)
  \/ SignupLine279(t)
  \/ SignupLine280(t)

\* every HTTP call returns a response and the interpreter keeps running the
\* thread: a started operation is not suspended forever
FairSpec == Init /\ [][Next]_vars /\ WF_vars(Run(MainThread))

\* C19: when every HTTP call returns a response, every invocation of _login
\* ends (returns or raises), having sent at most 1 login request and at most
\* 60 poll requests and slept at most 60 times 10 seconds.
C19_LoginTerminatesBounded ==
  /\ [](\A t \in Threads :
          /\ count[t].login <= 1
          /\ count[t].poll <= PollRetries
          /\ count[t].sleep <= PollRetries
          /\ pc[t] /= "idle" =>
               now - before[t].now = SleepSeconds * count[t].sleep)
  /\ \A t \in Threads : InLogin(t) ~> ~InLogin(t)

\* C19 witness: get_items went through 59 answers of 202 before its login was
\* confirmed, 590 seconds after the call, and has sent its item request.
C19_Witness ==
  /\ pc[MainThread] = "data_sent"
  /\ op[MainThread] = "get_items"
  /\ count[MainThread].login = 1
  /\ count[MainThread].poll = PollRetries
  /\ count[MainThread].sleep = PollRetries - 1
  /\ now - before[MainThread].now = SleepSeconds * (PollRetries - 1)
  /\ Present(access_token)
====
